---- MODULE Spec2Model ----
(* Introduction inference of matUtils (src/matUtils/introduce.cpp):        *)
(* read_two_column, get_assignments, get_association_index,                *)
(* get_monophyletic_cladesize and find_introductions over a loaded         *)
(* mutation-annotated tree.                                                *)
(*                                                                         *)
(* Numbers: a C++ float is modelled by the exact rational <<num, den>> in  *)
(* lowest terms (den > 0).  Node identifiers are 1..nnodes in depth-first  *)
(* order, the root is 1; region names are the integers 1..MaxRegions whose *)
(* order stands for the lexicographic order of the names.  A row of the    *)
(* output is the sequence of the values streamed into it, in column order, *)
(* before rendering; outstrs[1] is the header.                             *)
(*                                                                         *)
(* The input trees carry no clade annotations (the clades column is        *)
(* "none"), every line of the samples file has its two columns, and the    *)
(* 100 permuted association indices, which only reach stderr, are left     *)
(* out.  global_mc and global_ai hold the two statistics logged per region.*)
EXTENDS Integers, Sequences, FiniteSets, TLC

\* ---------------------------------------------------------------- bounds
MaxNodes == 5
MaxMut == 1
MaxLines == 2
MaxRegions == 2

NULL == 0

VARIABLES nnodes, parent, mutations,
          lines, add_info, min_origin_confidence,
          pc, sample_regions, region_assignments, global_mc, global_ai,
          region_ins, region_cons, outstrs, ri, si,
          recorded_mc, recorded_ai

vars == <<nnodes, parent, mutations, lines, add_info, min_origin_confidence,
          pc, sample_regions, region_assignments, global_mc, global_ai,
          region_ins, region_cons, outstrs, ri, si, recorded_mc, recorded_ai>>

\* ------------------------------------------------------------- rationals
RECURSIVE GCD(_, _)
GCD(a, b) == IF b = 0 THEN a ELSE GCD(b, a % b)

Abs(x) == IF x < 0 THEN -x ELSE x

Rat(n, d) ==
    LET g == GCD(Abs(n), Abs(d))
        s == IF d < 0 THEN -1 ELSE 1
    IN  <<(s * n) \div g, (s * d) \div g>>

Zero == <<0, 1>>
One == <<1, 1>>
Half == <<1, 2>>

RAdd(a, b) == Rat(a[1] * b[2] + b[1] * a[2], a[2] * b[2])
RSub(a, b) == Rat(a[1] * b[2] - b[1] * a[2], a[2] * b[2])
RDiv(a, b) == Rat(a[1] * b[2], a[2] * b[1])
RLt(a, b) == a[1] * b[2] < b[1] * a[2]
RLe(a, b) == a[1] * b[2] <= b[1] * a[2]
RGt(a, b) == RLt(b, a)
RGe(a, b) == RLe(b, a)

RECURSIVE Pow2(_)
Pow2(k) == IF k = 0 THEN 1 ELSE 2 * Pow2(k - 1)

Max(a, b) == IF a > b THEN a ELSE b

\* ------------------------------------------------------------------ tree
Nodes == 1..nnodes

is_leaf(n) == \A c \in Nodes : parent[c] # n
is_root(n) == parent[n] = 0

RECURSIVE SortedSeq(_)
SortedSeq(S) ==
    IF S = {} THEN <<>>
    ELSE LET m == CHOOSE x \in S : \A y \in S : x <= y
         IN  <<m>> \o SortedSeq(S \ {m})

children(n) == SortedSeq({c \in Nodes : parent[c] = n})

RECURSIVE DfsList(_)
DfsList(ns) ==
    IF ns = <<>> THEN <<>>
    ELSE <<Head(ns)>> \o DfsList(children(Head(ns))) \o DfsList(Tail(ns))

depth_first_expansion(n) == DfsList(<<IF n = NULL THEN 1 ELSE n>>)

RECURSIVE BfsQueue(_)
BfsQueue(q) ==
    IF q = <<>> THEN <<>>
    ELSE <<Head(q)>> \o BfsQueue(Tail(q) \o children(Head(q)))

breadth_first_expansion(n) == BfsQueue(<<IF n = NULL THEN 1 ELSE n>>)

RECURSIVE Up(_)
Up(n) == IF n = 0 THEN <<>> ELSE <<n>> \o Up(parent[n])

rsearch(n, include_self) ==
    IF n \notin Nodes THEN <<>>
    ELSE IF include_self THEN Up(n) ELSE Up(parent[n])

get_leaves_ids(n) == SelectSeq(depth_first_expansion(n), is_leaf)

Range(s) == {s[i] : i \in 1..Len(s)}

\* ------------------------------------------------------- read_two_column
\* amap[rname].push_back(sname) for every line, in file order
RECURSIVE read_two_column(_)
read_two_column(ls) ==
    IF ls = <<>> THEN <<>>
    ELSE LET amap == read_two_column(SubSeq(ls, 1, Len(ls) - 1))
             l == ls[Len(ls)]
             old == IF l.rname \in DOMAIN amap THEN amap[l.rname] ELSE <<>>
         IN  [r \in (DOMAIN amap) \cup {l.rname} |->
                 IF r = l.rname THEN Append(old, l.sname) ELSE amap[r]]

\* the keys in descending order
map_order_desc(m) ==
    LET a == SortedSeq(DOMAIN m)
    IN  [i \in 1..Len(a) |-> a[Len(a) + 1 - i]]

\* iteration order of a std::map keyed by name: ascending keys
map_order(m) == SortedSeq(DOMAIN m)

\* ------------------------------------------------------- get_assignments
\* the path sum with a == n tested before the addition
RECURSIVE total_traveled_exclusive(_, _, _)
total_traveled_exclusive(path, n, total) ==
    IF path = <<>> THEN 0
    ELSE IF Head(path) = n THEN total
    ELSE total_traveled_exclusive(Tail(path), n, total + mutations[Head(path)])

\* for (auto a: T->rsearch(d, true)) { total_traveled += ...; if (a == n) ... }
RECURSIVE total_traveled(_, _, _)
total_traveled(path, n, total) ==
    IF path = <<>> THEN 0
    ELSE LET t == total + mutations[Head(path)]
         IN  IF Head(path) = n THEN t ELSE total_traveled(Tail(path), n, t)

\* the scan of depth_first_expansion(n) for the two distances; in_leaf and
\* out_leaf remember the leaf the distance was last taken from
RECURSIVE nearest_scan(_, _, _, _)
nearest_scan(ds, n, sample_set, st) ==
    IF ds = <<>> THEN st
    ELSE IF (st.min_to_in > 0) /\ (st.min_to_out > 0) THEN st
    ELSE LET d == Head(ds)
             dist == total_traveled(rsearch(d, TRUE), n, 0)
         IN  IF is_leaf(d) /\ d \in sample_set /\ st.min_to_in = 0
             THEN nearest_scan(Tail(ds), n, sample_set,
                      [st EXCEPT !.min_to_in = dist, !.in_leaf = d])
             ELSE IF is_leaf(d) /\ d \notin sample_set /\ st.min_to_out = 0
             THEN nearest_scan(Tail(ds), n, sample_set,
                      [st EXCEPT !.min_to_out = dist, !.out_leaf = d])
             ELSE nearest_scan(Tail(ds), n, sample_set, st)

nearest(n, sample_set) ==
    nearest_scan(depth_first_expansion(n), n, sample_set,
                 [min_to_in |-> 0, min_to_out |-> 0,
                  in_leaf |-> NULL, out_leaf |-> NULL])

in_leaves(n, sample_set) == {l \in Range(get_leaves_ids(n)) : l \in sample_set}
out_leaves(n, sample_set) == {l \in Range(get_leaves_ids(n)) : l \notin sample_set}

\* rule 4 returning the ratio r itself
balance_ratio(min_to_in, min_to_out, ils, ols) ==
    IF min_to_in = 0 THEN One
    ELSE IF min_to_out = 0 THEN Zero
    ELSE LET vor == Rat(min_to_out, ols)
             vir == Rat(min_to_in, ils)
         IN  RDiv(vir, vor)

\* rule 4: the balance of the two distances
balance(min_to_in, min_to_out, ils, ols) ==
    IF min_to_in = 0 THEN One
    ELSE IF min_to_out = 0 THEN Zero
    ELSE LET vor == Rat(min_to_out, ols)
             vir == Rat(min_to_in, ils)
             r == RDiv(vir, vor)
         IN  RDiv(One, RAdd(One, r))

\* the tests of rules 2 and 3 exchanged
assign_node_swapped(n, sample_set) ==
    IF is_leaf(n)
    THEN IF n \in sample_set THEN One ELSE Zero
    ELSE LET ils == Cardinality(in_leaves(n, sample_set))
             ols == Cardinality(out_leaves(n, sample_set))
             nr == nearest(n, sample_set)
         IN  IF ils = 0 THEN One
             ELSE IF ols = 0 THEN Zero
             ELSE balance(nr.min_to_in, nr.min_to_out, ils, ols)

assign_node(n, sample_set) ==
    IF is_leaf(n)
    THEN IF n \in sample_set THEN One ELSE Zero
    ELSE LET ils == Cardinality(in_leaves(n, sample_set))
             ols == Cardinality(out_leaves(n, sample_set))
             nr == nearest(n, sample_set)
         IN  IF ols = 0 THEN One
             ELSE IF ils = 0 THEN Zero
             ELSE balance(nr.min_to_in, nr.min_to_out, ils, ols)

get_assignments(sample_set) ==
    [n \in Range(depth_first_expansion(NULL)) |-> assign_node(n, sample_set)]

\* ------------------------------------------------- get_association_index
RECURSIVE count_children(_, _, _, _)
count_children(cs, assignments, internal_tracker, acc) ==
    IF cs = <<>> THEN acc
    ELSE LET c == Head(cs)
             nxt ==
               IF is_leaf(c)
               THEN IF c \in DOMAIN assignments
                    THEN IF RGt(assignments[c], Half)
                         THEN [acc EXCEPT !.in_c = @ + 1]
                         ELSE [acc EXCEPT !.out_c = @ + 1]
                    ELSE acc
               ELSE IF c \in DOMAIN internal_tracker
                    THEN [acc EXCEPT !.in_c = @ + internal_tracker[c][1],
                                     !.out_c = @ + internal_tracker[c][2]]
                    ELSE [acc EXCEPT !.fatal = TRUE]
         IN  count_children(Tail(cs), assignments, internal_tracker, nxt)

\* one term: size_t quotient max/total, then the division by pow(2, total-1)
ai_term(in_c, out_c) ==
    LET total_leaves == in_c + out_c
    IN  Rat(1 - (Max(in_c, out_c) \div total_leaves), Pow2(total_leaves - 1))

RECURSIVE ai_loop(_, _, _)
ai_loop(ns, assignments, st) ==
    IF ns = <<>> \/ st.fatal THEN st
    ELSE LET n == Head(ns)
         IN  IF is_leaf(n) THEN ai_loop(Tail(ns), assignments, st)
             ELSE LET cnt == count_children(children(n), assignments,
                                 st.internal_tracker,
                                 [in_c |-> 0, out_c |-> 0, fatal |-> FALSE])
                      tr == [k \in (DOMAIN st.internal_tracker) \cup {n} |->
                               IF k = n THEN <<cnt.in_c, cnt.out_c>>
                               ELSE st.internal_tracker[k]]
                  IN  IF cnt.fatal
                      THEN [st EXCEPT !.fatal = TRUE]
                      ELSE ai_loop(Tail(ns), assignments,
                             [total_ai |-> RAdd(st.total_ai,
                                                ai_term(cnt.in_c, cnt.out_c)),
                              internal_tracker |-> tr,
                              fatal |-> FALSE])

Reverse(s) == [i \in 1..Len(s) |-> s[Len(s) + 1 - i]]

\* the loop over the breadth-first order as breadth_first_expansion gives it
association_run_forward(assignments, subroot) ==
    ai_loop(breadth_first_expansion(subroot), assignments,
            [total_ai |-> Zero, internal_tracker |-> <<>>, fatal |-> FALSE])

association_run(assignments, subroot) ==
    ai_loop(Reverse(breadth_first_expansion(subroot)), assignments,
            [total_ai |-> Zero, internal_tracker |-> <<>>, fatal |-> FALSE])

get_association_index(assignments, subroot) ==
    association_run(assignments, subroot).total_ai

\* -------------------------------------------- get_monophyletic_cladesize
RECURSIVE longest_run(_, _, _, _)
longest_run(acls, assignments, current, biggest) ==
    IF acls = <<>> THEN Max(current, biggest)
    ELSE LET l == Head(acls)
         IN  IF l \notin DOMAIN assignments
             THEN longest_run(Tail(acls), assignments, current, biggest)
             ELSE IF RGe(assignments[l], Half)
             THEN longest_run(Tail(acls), assignments, current + 1, biggest)
             ELSE longest_run(Tail(acls), assignments, 0, Max(current, biggest))

get_monophyletic_cladesize(assignments, subroot) ==
    longest_run(SelectSeq(depth_first_expansion(subroot), is_leaf),
                assignments, 0, 0)

\* ------------------------------------------------------------ the inputs
\* parent vectors of the rooted ordered trees with n nodes, numbered in
\* depth-first order: node k+1 hangs below a node of the path root..k
RECURSIVE UpIn(_, _)
UpIn(p, n) == IF n = 0 THEN {} ELSE {n} \cup UpIn(p, p[n])

RECURSIVE ParentVectors(_)
ParentVectors(n) ==
    IF n = 1 THEN {<<0>>}
    ELSE {Append(p, q) : <<p, q>> \in
            UNION {{<<p, q>> : q \in UpIn(p, n - 1)} : p \in ParentVectors(n - 1)}}

\* the values given to --origin-confidence
Thetas == {Half, <<3, 2>>}

RECURSIVE SeqsUpTo(_, _)
SeqsUpTo(S, k) ==
    IF k = 0 THEN {<<>>}
    ELSE LET r == SeqsUpTo(S, k - 1)
         IN  r \cup {Append(s, x) : <<s, x>> \in (r \X S)}

LeavesOf(n, p) == {x \in 1..n : \A c \in 1..n : p[c] # x}

Init ==
    /\ nnodes \in 1..MaxNodes
    /\ parent \in ParentVectors(nnodes)
    /\ mutations \in {m \in [1..nnodes -> 0..MaxMut] : m[1] = 0}
    /\ lines \in SeqsUpTo([sname : LeavesOf(nnodes, parent),
                           rname : 1..MaxRegions], MaxLines)
    /\ add_info \in BOOLEAN
    /\ min_origin_confidence \in Thetas
    /\ pc = "read"
    /\ sample_regions = <<>>
    /\ region_assignments = <<>>
    /\ global_mc = <<>>
    /\ global_ai = <<>>
    /\ region_ins = <<>>
    /\ region_cons = <<>>
    /\ outstrs = <<>>
    /\ ri = 1
    /\ si = 1
    /\ recorded_mc = <<>>
    /\ recorded_ai = <<>>

\* ---------------------------------------------------- find_introductions
ReadTwoColumn ==
    /\ pc = "read"
    /\ sample_regions' = read_two_column(lines)
    /\ pc' = "assign"
    /\ UNCHANGED <<nnodes, parent, mutations, lines, add_info,
                   min_origin_confidence, region_assignments, global_mc,
                   global_ai, region_ins, region_cons, outstrs, ri, si,
                   recorded_mc, recorded_ai>>

MapPut(m, k, v) == [x \in (DOMAIN m) \cup {k} |-> IF x = k THEN v ELSE m[x]]

\* one pass of the loop over sample_regions: the region's assignments and,
\* with add_info, the two statistics of the whole tree that are logged
AssignRegion ==
    /\ pc = "assign"
    /\ ri <= Len(map_order(sample_regions))
    /\ LET region == map_order(sample_regions)[ri]
           samples == sample_regions[region]
           assignments == get_assignments(Range(samples))
           run == association_run(assignments, NULL)
       IN  IF add_info /\ run.fatal
           THEN /\ pc' = "exit"
                /\ UNCHANGED <<region_assignments, global_mc, global_ai, ri>>
           ELSE /\ region_assignments' = MapPut(region_assignments, region, assignments)
                /\ global_mc' = IF add_info
                                THEN MapPut(global_mc, region,
                                       get_monophyletic_cladesize(assignments, NULL))
                                ELSE global_mc
                /\ global_ai' = IF add_info
                                THEN MapPut(global_ai, region, run.total_ai)
                                ELSE global_ai
                /\ ri' = ri + 1
                /\ pc' = pc
    /\ UNCHANGED <<nnodes, parent, mutations, lines, add_info,
                   min_origin_confidence, sample_regions, region_ins,
                   region_cons, outstrs, si, recorded_mc, recorded_ai>>

\* the header without the two add_info columns
header_no_info(nregions, info) ==
    <<"sample", "introduction_node", "intro_confidence", "parent_confidence",
      "distance">>
    \o (IF nregions = 1 THEN <<>>
        ELSE <<"region", "origins", "origins_confidence">>)
    \o <<"clades", "mutation_path">>

header(nregions, info) ==
    <<"sample", "introduction_node", "intro_confidence", "parent_confidence",
      "distance">>
    \o (IF nregions = 1 THEN <<>>
        ELSE <<"region", "origins", "origins_confidence">>)
    \o <<"clades", "mutation_path">>
    \o (IF info THEN <<"monophyl_size", "assoc_index">> ELSE <<>>)

\* region_ins / region_cons, then the header line
BuildOriginIndex ==
    /\ pc = "assign"
    /\ ri > Len(map_order(sample_regions))
    /\ LET order == map_order(region_assignments)
           above(n) == SelectSeq(order,
                         LAMBDA r : RGt(region_assignments[r][n],
                                        min_origin_confidence))
           keys == IF order = <<>> THEN {}
                   ELSE {n \in Nodes : above(n) # <<>>}
       IN  /\ region_ins' = [n \in keys |-> above(n)]
           /\ region_cons' = [n \in keys |->
                                [i \in 1..Len(above(n)) |->
                                    region_assignments[above(n)[i]][n]]]
    /\ outstrs' = <<header(Cardinality(DOMAIN region_assignments), add_info)>>
    /\ pc' = "walk"
    /\ ri' = 1
    /\ si' = 1
    /\ UNCHANGED <<nnodes, parent, mutations, lines, add_info,
                   min_origin_confidence, sample_regions, region_assignments,
                   global_mc, global_ai, recorded_mc, recorded_ai>>

\* the walk stopping at the first node that is not fully IN
RECURSIVE walk_stop_below_one(_, _, _)
walk_stop_below_one(path, assignments, st) ==
    IF path = <<>> THEN st
    ELSE LET a == Head(path)
             anc_state == IF is_root(a) THEN Zero ELSE assignments[a]
             le == IF is_root(a) THEN a ELSE st.last_encountered
         IN  IF RLt(anc_state, One)
             THEN [st EXCEPT !.emitted = TRUE, !.a = a,
                             !.anc_state = anc_state,
                             !.last_encountered = le]
             ELSE walk_stop_below_one(Tail(path), assignments,
                       [st EXCEPT !.last_encountered = a,
                                  !.last_node = a,
                                  !.last_anc_state = anc_state,
                                  !.traversed = @ + mutations[a]])

\* the walk without the root taking over last_encountered
RECURSIVE walk_root_unset(_, _, _)
walk_root_unset(path, assignments, st) ==
    IF path = <<>> THEN st
    ELSE LET a == Head(path)
             anc_state == IF is_root(a) THEN Zero ELSE assignments[a]
         IN  IF RLt(anc_state, min_origin_confidence)
             THEN [st EXCEPT !.emitted = TRUE, !.a = a,
                             !.anc_state = anc_state]
             ELSE walk_root_unset(Tail(path), assignments,
                       [st EXCEPT !.last_encountered = a,
                                  !.last_node = a,
                                  !.last_anc_state = anc_state,
                                  !.traversed = @ + mutations[a]])

\* the walk stopping at anc_state <= theta
RECURSIVE walk_stop_at_theta(_, _, _)
walk_stop_at_theta(path, assignments, st) ==
    IF path = <<>> THEN st
    ELSE LET a == Head(path)
             anc_state == IF is_root(a) THEN Zero ELSE assignments[a]
             le == IF is_root(a) THEN a ELSE st.last_encountered
         IN  IF RLe(anc_state, min_origin_confidence)
             THEN [st EXCEPT !.emitted = TRUE, !.a = a,
                             !.anc_state = anc_state,
                             !.last_encountered = le]
             ELSE walk_stop_at_theta(Tail(path), assignments,
                       [st EXCEPT !.last_encountered = a,
                                  !.last_node = a,
                                  !.last_anc_state = anc_state,
                                  !.traversed = @ + mutations[a]])

\* the loop over T->rsearch(s, true), up to the break
RECURSIVE walk(_, _, _)
walk(path, assignments, st) ==
    IF path = <<>> THEN st
    ELSE LET a == Head(path)
             anc_state == IF is_root(a) THEN Zero ELSE assignments[a]
             le == IF is_root(a) THEN a ELSE st.last_encountered
         IN  IF RLt(anc_state, min_origin_confidence)
             THEN [st EXCEPT !.emitted = TRUE, !.a = a,
                             !.anc_state = anc_state,
                             !.last_encountered = le]
             ELSE walk(Tail(path), assignments,
                       [st EXCEPT !.last_encountered = a,
                                  !.last_node = a,
                                  !.last_anc_state = anc_state,
                                  !.traversed = @ + mutations[a]])

walk_from(s, assignments) ==
    walk(rsearch(s, TRUE), assignments,
         [last_encountered |-> s, last_node |-> NULL, last_anc_state |-> One,
          traversed |-> 0, emitted |-> FALSE, a |-> NULL, anc_state |-> Zero])

\* "v," for every confidence of the list
RECURSIVE joined_cons(_)
joined_cons(vs) ==
    IF vs = <<>> THEN <<>> ELSE <<Head(vs), ",">> \o joined_cons(Tail(vs))

\* the origin looked up at the root as well
origins_of_any_node(a, nregions) ==
    IF (nregions > 1) /\ a \in DOMAIN region_ins
    THEN [origins |-> region_ins[a], origins_cons |-> joined_cons(region_cons[a])]
    ELSE [origins |-> "indeterminate", origins_cons |-> <<Zero>>]

origins_of(a, nregions) ==
    IF (nregions > 1) /\ ~is_root(a) /\ a \in DOMAIN region_ins
    THEN [origins |-> region_ins[a], origins_cons |-> joined_cons(region_cons[a])]
    ELSE [origins |-> "indeterminate", origins_cons |-> <<Zero>>]

\* the mutation lists of the nodes from a to the root, each followed by "<"
\* (a mutation list is given by its length)
RECURSIVE intro_mut_path(_)
intro_mut_path(path) ==
    IF path = <<>> THEN <<>>
    ELSE <<mutations[Head(path)], "<">> \o intro_mut_path(Tail(path))

memo_mc(w, assignments) ==
    IF w.a \in DOMAIN recorded_mc THEN recorded_mc[w.a]
    ELSE get_monophyletic_cladesize(assignments, w.last_node)

memo_ai(w, assignments) ==
    IF w.a \in DOMAIN recorded_ai THEN recorded_ai[w.a]
    ELSE get_association_index(assignments, w.last_node)

row_of(s, w, region, nregions, mc, ai) ==
    <<s, w.last_encountered, w.last_anc_state, w.anc_state, w.traversed>>
    \o (IF nregions = 1 THEN <<>>
        ELSE <<region, origins_of(w.a, nregions).origins,
               origins_of(w.a, nregions).origins_cons>>)
    \o <<"none", intro_mut_path(rsearch(w.a, TRUE))>>
    \o (IF add_info THEN <<mc, ai>> ELSE <<>>)

\* one pass of the loop over the samples of the current region
WalkSample ==
    /\ pc = "walk"
    /\ ri <= Len(map_order(region_assignments))
    /\ LET region == map_order(region_assignments)[ri]
           assignments == region_assignments[region]
           samples == sample_regions[region]
           s == samples[si]
           w == walk_from(s, assignments)
           nregions == Cardinality(DOMAIN region_assignments)
           fresh_ai == add_info /\ w.emitted /\ w.a \notin DOMAIN recorded_ai
           fatal == fresh_ai /\ association_run(assignments, w.last_node).fatal
           mc == IF add_info THEN memo_mc(w, assignments) ELSE 0
           ai == IF add_info THEN memo_ai(w, assignments) ELSE Zero
           last == si = Len(samples)
       IN  IF fatal
           THEN /\ pc' = "exit"
                /\ UNCHANGED <<outstrs, ri, si, recorded_mc, recorded_ai>>
           ELSE /\ outstrs' = IF w.emitted
                              THEN Append(outstrs,
                                     row_of(s, w, region, nregions, mc, ai))
                              ELSE outstrs
                /\ recorded_mc' = IF last THEN <<>>
                                  ELSE IF w.emitted /\ add_info
                                  THEN MapPut(recorded_mc, w.a, mc)
                                  ELSE recorded_mc
                /\ recorded_ai' = IF last THEN <<>>
                                  ELSE IF w.emitted /\ add_info
                                  THEN MapPut(recorded_ai, w.a, ai)
                                  ELSE recorded_ai
                /\ si' = IF last THEN 1 ELSE si + 1
                /\ ri' = IF last THEN ri + 1 ELSE ri
                /\ pc' = pc
    /\ UNCHANGED <<nnodes, parent, mutations, lines, add_info,
                   min_origin_confidence, sample_regions, region_assignments,
                   global_mc, global_ai, region_ins, region_cons>>

\* return outstrs
Return ==
    /\ pc = "walk"
    /\ ri > Len(map_order(region_assignments))
    /\ pc' = "done"
    /\ UNCHANGED <<nnodes, parent, mutations, lines, add_info,
                   min_origin_confidence, sample_regions, region_assignments,
                   global_mc, global_ai, region_ins, region_cons, outstrs,
                   ri, si, recorded_mc, recorded_ai>>

\* smaller trees under a samples file of one more line and one more region
InitRegions ==
    /\ nnodes \in 1..(MaxNodes - 1)
    /\ parent \in ParentVectors(nnodes)
    /\ mutations \in {m \in [1..nnodes -> 0..MaxMut] : m[1] = 0}
    /\ lines \in SeqsUpTo([sname : LeavesOf(nnodes, parent),
                           rname : 1..(MaxRegions + 1)], MaxLines + 1)
    /\ add_info \in BOOLEAN
    /\ min_origin_confidence \in Thetas
    /\ pc = "read"
    /\ sample_regions = <<>>
    /\ region_assignments = <<>>
    /\ global_mc = <<>>
    /\ global_ai = <<>>
    /\ region_ins = <<>>
    /\ region_cons = <<>>
    /\ outstrs = <<>>
    /\ ri = 1
    /\ si = 1
    /\ recorded_mc = <<>>
    /\ recorded_ai = <<>>

\* the tree root -> {A, X}, X -> {Y, D}, Y -> {B, C} with nodes numbered in
\* preorder: root 1, A 2, X 3, Y 4, B 5, C 6, D 7; one mutation per edge
ExampleParent == <<0, 1, 1, 3, 4, 4, 3>>
ExampleMutations == <<0, 1, 1, 1, 1, 1, 1>>

InitExample ==
    /\ nnodes = 7
    /\ parent = ExampleParent
    /\ mutations = ExampleMutations
    /\ lines \in SeqsUpTo([sname : LeavesOf(nnodes, parent),
                           rname : 1..MaxRegions], MaxLines)
    /\ add_info \in BOOLEAN
    /\ min_origin_confidence \in Thetas
    /\ pc = "read"
    /\ sample_regions = <<>>
    /\ region_assignments = <<>>
    /\ global_mc = <<>>
    /\ global_ai = <<>>
    /\ region_ins = <<>>
    /\ region_cons = <<>>
    /\ outstrs = <<>>
    /\ ri = 1
    /\ si = 1
    /\ recorded_mc = <<>>
    /\ recorded_ai = <<>>

Next ==
    \/ ReadTwoColumn
    \/ AssignRegion
    \/ BuildOriginIndex
    \/ WalkSample
    \/ Return


Spec == Init /\ [][Next]_vars
SpecRegions == InitRegions /\ [][Next]_vars
SpecExample == InitExample /\ [][Next]_vars
\* ================================================================ claims
SampleSet(r) == Range(sample_regions[r])
LeavesUnder(n) == {l \in Nodes : is_leaf(l) /\ n \in UpIn(parent, l)}
Mixed(n, S) == (LeavesUnder(n) \cap S # {}) /\ (LeavesUnder(n) \ S # {})

\* C1: a node whose descendant leaves are all in S is assigned 1, a node
\* none of whose descendant leaves is in S is assigned 0, and a leaf is
\* assigned 1 exactly when it is in S and 0 otherwise.
C1_PureNodes ==
    \A r \in DOMAIN region_assignments : \A n \in Nodes :
        LET A == region_assignments[r]
            S == SampleSet(r)
        IN  /\ (LeavesUnder(n) \subseteq S) => (A[n] = One)
            /\ (LeavesUnder(n) \cap S = {}) => (A[n] = Zero)
            /\ is_leaf(n) => /\ A[n] \in {Zero, One}
                             /\ (A[n] = One) <=> (n \in S)

C1_Witness ==
    \E r \in DOMAIN region_assignments : \E n, m \in Nodes :
        /\ ~is_leaf(n) /\ ~is_leaf(m)
        /\ LeavesUnder(n) \subseteq SampleSet(r)
        /\ LeavesUnder(m) \cap SampleSet(r) = {}
        /\ region_assignments[r][n] = One
        /\ region_assignments[r][m] = Zero

\* the mutations on the edges of the path from n down to d
RECURSIVE EdgeSum(_, _)
EdgeSum(d, n) == IF d = n \/ d = 0 THEN 0 ELSE mutations[d] + EdgeSum(parent[d], n)

\* C2: at a mixed internal node n with mi > 0 and mo > 0 the assignment is
\* mo*iL / (mo*iL + mi*oL), mi and mo being the mutations on the edges from n
\* down to the IN and the OUT leaf the scan took, without n's incoming edge.
C2_Original ==
    \A r \in DOMAIN region_assignments : \A n \in Nodes :
        LET S == SampleSet(r)
            nr == nearest(n, S)
            mi == EdgeSum(nr.in_leaf, n)
            mo == EdgeSum(nr.out_leaf, n)
            iL == Cardinality(LeavesUnder(n) \cap S)
            oL == Cardinality(LeavesUnder(n) \ S)
        IN  (Mixed(n, S) /\ nr.in_leaf # NULL /\ nr.out_leaf # NULL
               /\ mi > 0 /\ mo > 0)
            => region_assignments[r][n] = Rat(mo * iL, mo * iL + mi * oL)

FirstLeaf(n, P(_)) ==
    LET ls == SelectSeq(depth_first_expansion(n), LAMBDA d : is_leaf(d) /\ P(d))
    IN  IF ls = <<>> THEN NULL ELSE ls[1]

\* C3: at a mixed internal node the distances are taken from the first IN
\* and the first OUT leaf of the depth-first traversal rooted at the node;
\* the node is assigned 1 if that IN leaf is at distance 0, and otherwise 0
\* if that OUT leaf is at distance 0 (distances as the scan measures them).
C3_Original ==
    \A r \in DOMAIN region_assignments : \A n \in Nodes :
        LET S == SampleSet(r)
            nr == nearest(n, S)
            fin == FirstLeaf(n, LAMBDA d : d \in S)
            fout == FirstLeaf(n, LAMBDA d : d \notin S)
            din == total_traveled(rsearch(fin, TRUE), n, 0)
            dout == total_traveled(rsearch(fout, TRUE), n, 0)
        IN  Mixed(n, S) =>
              /\ nr.min_to_in = din
              /\ nr.min_to_out = dout
              /\ (din = 0) => region_assignments[r][n] = One
              /\ (din # 0 /\ dout = 0) => region_assignments[r][n] = Zero
\* ------------------------------------------------------------- the rows
NRegions == Cardinality(DOMAIN region_assignments)
DataRows == 2..Len(outstrs)
Col(i, name) ==
    outstrs[i][CHOOSE k \in 1..Len(outstrs[1]) : outstrs[1][k] = name]
RowRegion(i) ==
    IF NRegions = 1 THEN CHOOSE r \in DOMAIN region_assignments : TRUE
    ELSE Col(i, "region")
RowA(i) == region_assignments[RowRegion(i)]
RowPath(i) == Up(Col(i, "sample"))

\* C4: when find_introductions has returned, every sample listed for a
\* region has exactly one data row in that region, and the row's
\* introduction_node is the sample or one of its ancestors.
C4_Original ==
    (pc = "done") =>
      \A r \in DOMAIN sample_regions : \A s \in SampleSet(r) :
        LET rows == {i \in DataRows : Col(i, "sample") = s /\ RowRegion(i) = r}
        IN  /\ Cardinality(rows) = 1
            /\ \A i \in rows : Col(i, "introduction_node") \in UpIn(parent, s)

\* position on the walk of the node the walk stops at: the first node that
\* is the root or whose assignment is below theta
RECURSIVE StopIndex(_, _, _)
StopIndex(path, A, k) ==
    IF k >= Len(path) THEN k
    ELSE IF is_root(path[k]) \/ RLt(A[path[k]], min_origin_confidence) THEN k
    ELSE StopIndex(path, A, k + 1)

RowStop(i) == RowPath(i)[StopIndex(RowPath(i), RowA(i), 1)]
RowBeforeStop(i) ==
    LET k == StopIndex(RowPath(i), RowA(i), 1)
    IN  IF k = 1 THEN Col(i, "sample") ELSE RowPath(i)[k - 1]

\* C5: the introduction_node of a row is the last node of the walk whose
\* confidence was >= theta (the sample if none was), and parent_confidence
\* is the confidence of the first node below theta, 0 at the root.
C5_Original ==
    \A i \in DataRows :
        /\ Col(i, "introduction_node") =
             (IF is_root(RowStop(i)) /\ RGe(RowA(i)[RowStop(i)], min_origin_confidence)
              THEN RowStop(i) ELSE RowBeforeStop(i))
        /\ Col(i, "parent_confidence") =
             (IF is_root(RowStop(i)) THEN Zero ELSE RowA(i)[RowStop(i)])

\* C5 (amended): the introduction_node of a row is the root when the walk
\* reached the root, and otherwise the last node of the walk before the
\* first node below theta (the sample if the sample is that node);
\* parent_confidence is the confidence of that first node, 0 at the root.
C5_Amended ==
    \A i \in DataRows :
        /\ Col(i, "introduction_node") =
             (IF is_root(RowStop(i)) THEN RowStop(i) ELSE RowBeforeStop(i))
        /\ Col(i, "parent_confidence") =
             (IF is_root(RowStop(i)) THEN Zero ELSE RowA(i)[RowStop(i)])

C5_Witness ==
    \E i \in DataRows :
        /\ ~is_root(RowStop(i))
        /\ Col(i, "introduction_node") # Col(i, "sample")
        /\ Col(i, "introduction_node") = RowBeforeStop(i)
        /\ RGt(Col(i, "parent_confidence"), Zero)

\* C6: every row has parent_confidence < theta <= intro_confidence, except
\* that a row whose walk reached the root has parent_confidence 0.
C6_Original ==
    \A i \in DataRows :
        IF is_root(RowStop(i))
        THEN Col(i, "parent_confidence") = Zero
        ELSE /\ RLt(Col(i, "parent_confidence"), min_origin_confidence)
             /\ RLe(min_origin_confidence, Col(i, "intro_confidence"))

\* C6 (amended): every row has parent_confidence < theta and, when
\* theta <= 1, theta <= intro_confidence, except that a row whose walk
\* reached the root has parent_confidence 0.
C6_Amended ==
    \A i \in DataRows :
        IF is_root(RowStop(i))
        THEN Col(i, "parent_confidence") = Zero
        ELSE /\ RLt(Col(i, "parent_confidence"), min_origin_confidence)
             /\ RLe(min_origin_confidence, One)
                  => RLe(min_origin_confidence, Col(i, "intro_confidence"))

C6_Witness ==
    \E i \in DataRows :
        /\ ~is_root(RowStop(i))
        /\ Col(i, "introduction_node") # Col(i, "sample")
        /\ RGt(Col(i, "parent_confidence"), Zero)
        /\ RLt(Col(i, "parent_confidence"), min_origin_confidence)
        /\ RLe(min_origin_confidence, Col(i, "intro_confidence"))

\* C7: the distance of a row is the number of mutations on the edges of
\* the path between the sample and the introduction_node.
C7_Original ==
    \A i \in DataRows :
        Col(i, "distance") = EdgeSum(Col(i, "sample"), Col(i, "introduction_node"))
RowWalk(i) == walk_from(Col(i, "sample"), RowA(i))

\* C8: with add_info, the monophyl_size and assoc_index of a row are the
\* values of get_monophyletic_cladesize and get_association_index on the
\* subtree rooted at the row's own last_node with the region's assignment.
C8_Original ==
    add_info =>
      \A i \in DataRows :
        /\ Col(i, "monophyl_size") =
             get_monophyletic_cladesize(RowA(i), RowWalk(i).last_node)
        /\ Col(i, "assoc_index") =
             get_association_index(RowA(i), RowWalk(i).last_node)

InCount(A, n) == Cardinality({l \in LeavesUnder(n) : RGt(A[l], Half)})
OutCount(A, n) == Cardinality({l \in LeavesUnder(n) : ~RGt(A[l], Half)})

AiTerm(A, n) ==
    LET total == InCount(A, n) + OutCount(A, n)
    IN  RDiv(RSub(One, Rat(Max(InCount(A, n), OutCount(A, n)), total)),
             Rat(Pow2(total - 1), 1))

RECURSIVE AiSum(_, _)
AiSum(A, S) ==
    IF S = {} THEN Zero
    ELSE LET x == CHOOSE y \in S : TRUE
         IN  RAdd(AiTerm(A, x), AiSum(A, S \ {x}))

\* C9: the association index of a region over the whole tree is the sum
\* over the internal nodes n of (1 - max(in_c, out_c)/total) / 2^(total-1),
\* the quotient max/total being fractional.
C9_Original ==
    \A r \in DOMAIN global_ai :
        global_ai[r] =
          AiSum(region_assignments[r], {n \in Nodes : ~is_leaf(n)})

\* C10: the monophyletic clade size of a region over the whole tree is the
\* number of leaves of the largest subtree whose leaves are all IN, 0 if
\* there is none.
C10_Original ==
    \A r \in DOMAIN global_mc :
        LET A == region_assignments[r]
            sizes == {Cardinality(LeavesUnder(n)) :
                        n \in {m \in Nodes :
                                 \A l \in LeavesUnder(m) : RGe(A[l], Half)}}
        IN  global_mc[r] =
              (IF sizes = {} THEN 0
               ELSE CHOOSE k \in sizes : \A j \in sizes : j <= k)
IsIndeterminate(v) == v = "indeterminate"
Exceeding(p) ==
    {r \in DOMAIN region_assignments :
        RGt(region_assignments[r][p], min_origin_confidence)}

\* C11: with more than one region, a row whose walk stopped at a non-root
\* node p lists in origins exactly the regions whose confidence at p exceeds
\* theta and in origins_confidence their confidences at p in the same
\* order; the fields are "indeterminate" and 0 exactly when no region
\* exceeds theta at p or the walk reached the root.
C11_Origins ==
    (NRegions > 1) =>
      \A i \in DataRows :
        LET p == RowStop(i)
            o == Col(i, "origins")
            c == Col(i, "origins_confidence")
        IN  IF is_root(p) \/ Exceeding(p) = {}
            THEN IsIndeterminate(o) /\ Len(c) = 1 /\ c[1] = Zero
            ELSE /\ ~IsIndeterminate(o)
                 /\ Range(o) = Exceeding(p)
                 /\ Len(o) = Cardinality(Exceeding(p))
                 /\ Len(c) = 2 * Len(o)
                 /\ \A k \in 1..Len(o) :
                      /\ c[2 * k - 1] = region_assignments[o[k]][p]
                      /\ c[2 * k] = ","

C11_Witness ==
    /\ NRegions > 1
    /\ \E i \in DataRows :
        /\ ~is_root(RowStop(i))
        /\ ~IsIndeterminate(Col(i, "origins"))
        /\ Len(Col(i, "origins")) = 2
        /\ Col(i, "origins")[1] < Col(i, "origins")[2]
        /\ Cardinality(Exceeding(RowStop(i))) = 2
\* C12: the assignment map of every region has an entry for every node of
\* the tree, every value lies in [0,1], and the maps of the regions all
\* have the same key set.
C12_TotalMaps ==
    /\ \A r \in DOMAIN region_assignments :
         /\ DOMAIN region_assignments[r] = Nodes
         /\ \A n \in Nodes :
              /\ RLe(Zero, region_assignments[r][n])
              /\ RLe(region_assignments[r][n], One)
    /\ \A r1, r2 \in DOMAIN region_assignments :
         DOMAIN region_assignments[r1] = DOMAIN region_assignments[r2]

C12_Witness ==
    /\ Cardinality(DOMAIN region_assignments) = 2
    /\ \E r \in DOMAIN region_assignments : \E n \in Nodes :
         /\ RLt(Zero, region_assignments[r][n])
         /\ RLt(region_assignments[r][n], Half)
    /\ \E r \in DOMAIN region_assignments : \E n \in Nodes :
         /\ RLt(Half, region_assignments[r][n])
         /\ RLt(region_assignments[r][n], One)
\* C13: the first string returned is the header of the table for (number
\* of regions, add_info): without the region, origins and
\* origins_confidence columns for a single region, with them for more than
\* one, with monophyl_size and assoc_index exactly when add_info is set;
\* every data row has as many fields as the header.
C13_Header ==
    (outstrs # <<>>) =>
      /\ (NRegions = 1 /\ ~add_info) =>
           outstrs[1] = <<"sample", "introduction_node", "intro_confidence",
                          "parent_confidence", "distance", "clades",
                          "mutation_path">>
      /\ (NRegions = 1 /\ add_info) =>
           outstrs[1] = <<"sample", "introduction_node", "intro_confidence",
                          "parent_confidence", "distance", "clades",
                          "mutation_path", "monophyl_size", "assoc_index">>
      /\ (NRegions > 1 /\ ~add_info) =>
           outstrs[1] = <<"sample", "introduction_node", "intro_confidence",
                          "parent_confidence", "distance", "region", "origins",
                          "origins_confidence", "clades", "mutation_path">>
      /\ (NRegions > 1 /\ add_info) =>
           outstrs[1] = <<"sample", "introduction_node", "intro_confidence",
                          "parent_confidence", "distance", "region", "origins",
                          "origins_confidence", "clades", "mutation_path",
                          "monophyl_size", "assoc_index">>
      /\ \A i \in DataRows : Len(outstrs[i]) = Len(outstrs[1])

C13_Witness ==
    /\ NRegions > 1
    /\ add_info
    /\ Len(outstrs) = 3
    /\ Len(outstrs[3]) = 12
FirstLine(r) ==
    CHOOSE i \in 1..Len(lines) :
        /\ lines[i].rname = r
        /\ \A j \in 1..(i - 1) : lines[j].rname # r

\* C14: regions are processed in the order in which their names first
\* appear in the samples input, when the assignments are built and when the
\* rows are emitted: a region whose assignments exist appeared before every
\* region still waiting, and the rows of an earlier-appearing region come
\* before the rows of a later-appearing one.
C14_Original ==
    /\ (pc = "assign") =>
         \A r1 \in DOMAIN region_assignments :
           \A r2 \in (DOMAIN sample_regions) \ (DOMAIN region_assignments) :
             FirstLine(r1) < FirstLine(r2)
    /\ (NRegions > 1) =>
         \A i, j \in DataRows :
           (i < j) => FirstLine(RowRegion(i)) <= FirstLine(RowRegion(j))

\* C14 (amended): regions are processed in ascending order of their names,
\* when the assignments are built and when the rows are emitted: a region
\* whose assignments exist sorts before every region still waiting, and the
\* rows of a region whose name sorts earlier come before the rows of one
\* whose name sorts later.
C14_Amended ==
    /\ (pc = "assign") =>
         \A r1 \in DOMAIN region_assignments :
           \A r2 \in (DOMAIN sample_regions) \ (DOMAIN region_assignments) :
             r1 < r2
    /\ (NRegions > 1) =>
         \A i, j \in DataRows :
           (i < j) => RowRegion(i) <= RowRegion(j)

C14_Witness ==
    /\ pc = "done"
    /\ Len(outstrs) = 3
    /\ Len(lines) = 2
    /\ lines[1].rname > lines[2].rname
    /\ RowRegion(2) = lines[2].rname
    /\ RowRegion(3) = lines[1].rname
\* the example's input: region {B, C} alone in the samples file, theta 1/2
ExampleInput ==
    /\ nnodes = 7
    /\ parent = ExampleParent
    /\ mutations = ExampleMutations
    /\ Len(lines) = 2
    /\ {lines[1].sname, lines[2].sname} = {5, 6}
    /\ lines[1].rname = lines[2].rname
    /\ min_origin_confidence = Half
ExampleRows == {i \in DataRows : Col(i, "sample") = 5}

InternalUnder(subroot) ==
    {n \in Range(breadth_first_expansion(subroot)) : ~is_leaf(n)}

\* C16: for every tree, every region's assignments and every subroot (a
\* node, or none for the whole tree), get_association_index never takes its
\* fatal exit, and internal_tracker ends with an entry for exactly the
\* internal nodes at or under the subroot, each equal to the numbers of IN
\* and OUT leaves under that node; find_introductions never exits through it.
C16_NoMysteryChild ==
    /\ pc # "exit"
    /\ \A r \in DOMAIN region_assignments :
         \A subroot \in Nodes \cup {NULL} :
           LET A == region_assignments[r]
               run == association_run(A, subroot)
           IN  /\ ~run.fatal
               /\ DOMAIN run.internal_tracker = InternalUnder(subroot)
               /\ \A n \in InternalUnder(subroot) :
                    run.internal_tracker[n] = <<InCount(A, n), OutCount(A, n)>>

C16_Witness ==
    /\ add_info
    /\ pc = "done"
    /\ Len(outstrs) > 1
    /\ \E r \in DOMAIN region_assignments :
         \E n \in Nodes :
           /\ ~is_leaf(n)
           /\ ~is_root(n)
           /\ ~is_root(parent[n])
           /\ InCount(region_assignments[r], n) > 0
           /\ OutCount(region_assignments[r], n) > 0
           /\ association_run(region_assignments[r], NULL).internal_tracker[n]
                = <<1, 1>>
\* C17: in a run with more than one region, the origins field of a row
\* emitted for region R is "indeterminate" or a list that does not contain R.
C17_OriginsExcludeRegion ==
    (NRegions > 1) =>
      \A i \in DataRows :
        \/ IsIndeterminate(Col(i, "origins"))
        \/ RowRegion(i) \notin Range(Col(i, "origins"))

C17_Witness ==
    /\ NRegions > 1
    /\ pc = "done"
    /\ \E i \in DataRows :
         /\ ~IsIndeterminate(Col(i, "origins"))
         /\ Len(Col(i, "origins")) = 1
         /\ Col(i, "origins")[1] # RowRegion(i)
         /\ RLt(RowA(i)[RowStop(i)], min_origin_confidence)
         /\ RGt(RowA(i)[RowStop(i)], Zero)
====
